---- MODULE Spec2Model ----
(***************************************************************************)
(* The Gmail polling / deduplication loop of AgentOC and the pipeline it   *)
(* drives: poll_gmail (tools/gmail_poller.py), classify_and_process        *)
(* (agents/email_agent.py), process_classified_email                       *)
(* (agents/reply_templates.py) and the memory layer (db/memory.py).        *)
(*                                                                         *)
(* Every database session and every external call is one step, so that two *)
(* poll cycles sharing the store (the timer loop and the manual trigger of *)
(* app/main.py) interleave between any two of them.                        *)
(***************************************************************************)
EXTENDS Integers, Sequences, FiniteSets, TLC

\* ------------------------------------------------------------------ bounds
MaxMsgs == 2        \* messages added to the mailbox in one behaviour
MaxOrders == 2      \* largest discount_orders_left a client starts with
MaxTriggers == 1    \* runs the operator starts: manual polls, direct runs
MaxEntries == 2     \* keys of a classifier payload

\* --------------------------------------------------------------- constants
NoCursor == 0       \* get_gmail_state() returns None: no gmail_state row
NoMsg == 0          \* gmail_message_id = None
BasePos == 1        \* history position of the mailbox before any message

Pollers == {"timer", "manual"}     \* _gmail_poll_loop, trigger_gmail_poll
Direct == "direct"                 \* classify_and_process called as a tool
Runners == Pollers \cup {Direct}

KnownClient == "c1"                \* the one client of the directory
UnknownClient == "unk"             \* an address with no client record
PaymentType == "prepay"            \* payment_type of KnownClient

NoError == "none"                  \* history.list answered without error
Expired == "404"                   \* the status of an expired startHistoryId
HistoryErrors == {Expired, "500"}  \* str(e) of a failed history.list call

VARIABLES
    mailbox,            \* number of messageAdded records of the mailbox feed
    gmail_state,        \* GmailState.last_history_id (NoCursor: no row)
    email_history,      \* the email_history table, in insertion order
    clients,            \* the Client row of KnownClient: discount fields
    telegram,           \* what the last step handed to send_telegram
    sent,               \* what send_telegram answered ("none": not called)
    history_error,      \* the error history.list answered the last step with
    reported,           \* message ids named in an error notification so far
    pc,                 \* where each runner stands
    history_id,         \* poll_gmail: history_id
    new_messages,       \* poll_gmail: new_messages
    i,                  \* poll_gmail: index of msg_info in new_messages
    latest_history_id,  \* poll_gmail: latest_history_id
    processed,          \* poll_gmail: processed
    msg_id,             \* gmail_message_id of the running pipeline
    result,             \* classify_and_process: result
    row,                \* decrement_discount: the row its session read
    rejected,           \* the running pipeline's inbound insert was rejected
    applied,            \* drafts produced with a discount applied
    orders0,            \* discount_orders_left at the start
    triggers,           \* manual polls and direct runs started so far
    data,               \* classify_and_process: data, the parsed payload
    classification,     \* the EmailClassification built from it
    client_data,        \* process_classified_email: client
    email_result,       \* process_classified_email: result
    stored,             \* the email_history rows of one client, oldest first
    gmail_history,      \* classify_and_process: gmail_history
    history,            \* classify_and_process: history
    directory,          \* the clients table as the admin tools write it
    written,            \* the last directory write and its outcome
    feed,               \* the answers of history.list, page after page
    fetched             \* what get_new_messages returned for them

vars == <<mailbox, gmail_state, email_history, clients, telegram, sent,
          history_error, reported,
          pc, history_id, new_messages, i, latest_history_id, processed,
          msg_id, result, row, rejected, applied, orders0, triggers,
          data, classification, client_data, email_result,
          stored, gmail_history, history, directory, written,
          feed, fetched>>

store == <<gmail_state, email_history, clients>>
pollLocals == <<history_id, new_messages, i, latest_history_id, processed>>
runLocals == <<msg_id, result, row, rejected>>
ghosts == <<applied, orders0, triggers>>
hist == <<stored, gmail_history, history>>
dir == <<directory, written>>
paging == <<feed, fetched>>
pure == <<data, classification, client_data, email_result, hist, dir, paging>>
poll == <<mailbox, store, history_error, reported, pc, pollLocals,
          runLocals, ghosts>>

\* a variable of the normaliser or of the template engine before its step
Pending == [status |-> "pending"]

\* ------------------------------------------------------------ data
\* REPLY_TEMPLATES: the keys of the table
TemplateKeys == {<<"new_order", "prepay">>, <<"new_order", "postpay">>}

\* the payment type is not looked at
REPLY_TEMPLATES_situation(situation, payment_type) == situation = "new_order"

\* REPLY_TEMPLATES.get((situation, payment_type)) finds a template
REPLY_TEMPLATES(situation, payment_type) ==
    <<situation, payment_type>> \in TemplateKeys

\* EmailClassification, as the normaliser builds it: the values the
\* pipeline branches on. price is the parsed price_num.
Cls(nr, s, c, pr) ==
    [needs_reply |-> nr, situation |-> s, client_email |-> c, price |-> pr]

\* the classifier's answers the pipeline tells apart: no reply needed (from
\* a client with or without a template for the situation), an
\* unknown sender, a known client without template, and a known client with
\* a template and a price that is or is not above zero
Classifications ==
    { Cls(FALSE, "other", KnownClient, 0),
      Cls(FALSE, "new_order", KnownClient, 100),
      Cls(TRUE, "new_order", UnknownClient, 100),
      Cls(TRUE, "other", KnownClient, 100),
      Cls(TRUE, "new_order", KnownClient, 100),
      Cls(TRUE, "new_order", KnownClient, 0) }

\* the result dict of process_classified_email
NoResult ==
    [needs_reply |-> FALSE, client_found |-> FALSE, template_used |-> FALSE,
     needs_ai_fallback |-> FALSE, draft_reply |-> FALSE, discount |-> FALSE]

NoRow == [discount_percent |-> 0, discount_orders_left |-> 0]

\* ------------------------------------------------------------ memory layer
\* GmailClient.get_current_history_id: profile["historyId"]
get_current_history_id(n) == BasePos + n

\* the history position of the k-th messageAdded record
Position(k) == BasePos + k

\* the query filters on the wrong rows and finds none
email_already_processed_outbound(h, mid) ==
    \E k \in DOMAIN h :
        h[k].direction = "outbound" /\ h[k].gmail_message_id = mid

\* the query answers true for every message id
email_already_processed_any(h, mid) == TRUE

\* email_already_processed: a row with this gmail_message_id exists
email_already_processed(h, mid) ==
    \E k \in DOMAIN h : h[k].gmail_message_id = mid

\* the column without its unique constraint
UniqueViolation_none(h, rec) == FALSE

\* EmailHistory.gmail_message_id: unique=True, nullable=True
UniqueViolation(h, rec) ==
    /\ rec.gmail_message_id # NoMsg
    /\ \E k \in DOMAIN h : h[k].gmail_message_id = rec.gmail_message_id

\* the insert replaces the row that holds the message id
save_email_replace(h, rec) ==
    IF UniqueViolation(h, rec)
    THEN Append(SelectSeq(h, LAMBDA r : r.gmail_message_id # rec.gmail_message_id),
                rec)
    ELSE Append(h, rec)

\* save_email: the insert commits, or fails and is logged and rolled back
save_email(h, rec) ==
    IF UniqueViolation(h, rec) THEN h ELSE Append(h, rec)

\* an EmailHistory row: the columns the pipeline's control flow reads
EmailRecord(d, mid) == [direction |-> d, gmail_message_id |-> mid]

\* the write is lost: the row keeps what it had
set_gmail_state_keep(old, hid) == old

\* set_gmail_state: the row is overwritten (or created) with history_id
set_gmail_state(old, hid) == hid

\* decrement_discount: the guard on the row the session read
decrement_guard(r) == r.discount_orders_left > 0

\* the counter goes down and discount_percent is left alone
decrement_commit_keep(cur, r) ==
    [discount_orders_left |-> r.discount_orders_left - 1,
     discount_percent |-> cur.discount_percent]

\* decrement_discount: the UPDATE the commit flushes. Only the attributes
\* the session changed are written: discount_orders_left always, and
\* discount_percent when the counter it computed is 0.
decrement_commit(cur, r) ==
    [discount_orders_left |-> r.discount_orders_left - 1,
     discount_percent |-> IF r.discount_orders_left - 1 = 0
                          THEN 0 ELSE cur.discount_percent]

\* get_client: the row of a known address, None otherwise
client_known(email) == email = KnownClient

\* the discount is applied whatever discount_orders_left is
apply_discount_any(client, price_num) ==
    client.discount_percent > 0 /\ price_num > 0

\* process_classified_email: apply_discount
apply_discount(client, price_num) ==
    /\ client.discount_percent > 0
    /\ client.discount_orders_left > 0
    /\ price_num > 0

\* ------------------------------------------------------------ poll_gmail
\* latest_history_id starts as None
InitialLatest_none(hid) == NoCursor

\* poll_gmail: latest_history_id = history_id before the loop
InitialLatest(hid) == hid

\* poll_gmail lines 157-159: latest_history_id after a message that was not
\* skipped
NextLatest(latest, msg_info) ==
    IF msg_info.history_id # NoCursor THEN msg_info.history_id ELSE latest

\* get_new_messages: the messageAdded records after after_history_id, each
\* with the historyId of the page that listed it. A page's historyId is the
\* mailbox position when the page was fetched: at least the position of the
\* records it lists, at most the position now, and later pages are not older.
PageIds(first, last) ==
    { hs \in [first..last -> (BasePos + first)..(BasePos + last)] :
        /\ \A k \in first..last : hs[k] >= Position(k)
        /\ \A k \in first..last : k < last => hs[k] <= hs[k + 1] }

\* the feed is read from its beginning: after_history_id is not used
get_new_messages_all(after, n, hs) ==
    [j \in 1..n |-> [msg_id |-> j, history_id |-> hs[n]]]

get_new_messages(after, n, hs) ==
    [j \in 1..(n - (after - BasePos)) |->
        [msg_id |-> after - BasePos + j,
         history_id |-> hs[after - BasePos + j]]]

Idle == [p \in Runners |-> "idle"]

ResetRun(p) ==
    /\ msg_id' = [msg_id EXCEPT ![p] = NoMsg]
    /\ result' = [result EXCEPT ![p] = NoResult]
    /\ row' = [row EXCEPT ![p] = NoRow]
    /\ rejected' = [rejected EXCEPT ![p] = FALSE]

\* poll_gmail is left, the locals go away
Leave(p, label) ==
    /\ pc' = [pc EXCEPT ![p] = label]
    /\ history_id' = [history_id EXCEPT ![p] = NoCursor]
    /\ new_messages' = [new_messages EXCEPT ![p] = <<>>]
    /\ i' = [i EXCEPT ![p] = 0]
    /\ latest_history_id' = [latest_history_id EXCEPT ![p] = NoCursor]
    /\ processed' = [processed EXCEPT ![p] = 0]
    /\ ResetRun(p)

\* poll_gmail returns processed (line 176, and the early returns)
Return(p) == Leave(p, "idle")

\* what the notification sink does with a message: the token or the chat
\* is not configured, or the API answers 200, answers another status, or
\* the request times out or fails
SinkOutcomes == {"unset", "200", "500", "timeout"}

\* the request's failure is not caught
send_telegram_raises(outcome) ==
    IF outcome = "200" THEN "True"
    ELSE IF outcome = "timeout" THEN "raise" ELSE "False"

\* send_telegram lines 37-59: True on status 200, False otherwise
send_telegram(outcome) == IF outcome = "200" THEN "True" ELSE "False"

\* the answers of send_telegram for the texts t of a step
Sink(t) == IF t = {} THEN {"none"}
           ELSE {send_telegram(outcome) : outcome \in SinkOutcomes}

\* send_telegram(text): the kind of text and the message it names
Notify(kind, mid) ==
    /\ telegram' = {[kind |-> kind, msg_id |-> mid]}
    /\ sent' \in Sink(telegram')
    /\ history_error' = NoError

\* the step sends nothing
Silent == telegram' = {} /\ sent' = "none" /\ history_error' = NoError

\* the failure is logged and the operator is not told
error_notification_none(kind, mid) == {}

\* the error notification of poll_gmail lines 151-155 ("msg_error") and of
\* classify_and_process lines 337-342 ("email_error")
error_notification(kind, mid) == {[kind |-> kind, msg_id |-> mid]}

\* the handler sends it; reported collects the messages so reported
NotifyError(kind, mid) ==
    /\ telegram' = error_notification(kind, mid)
    /\ sent' \in Sink(telegram')
    /\ history_error' = NoError
    /\ reported' = reported \cup {n.msg_id : n \in error_notification(kind, mid)}

InitPoll ==
    /\ mailbox = 0
    /\ gmail_state = NoCursor
    /\ email_history = <<>>
    /\ orders0 \in 0..MaxOrders
    /\ clients = [discount_percent |-> 10,
                  discount_orders_left |-> orders0]
    /\ telegram = {}
    /\ sent = "none"
    /\ history_error = NoError
    /\ reported = {}
    /\ pc = Idle
    /\ history_id = [p \in Runners |-> NoCursor]
    /\ new_messages = [p \in Runners |-> <<>>]
    /\ i = [p \in Runners |-> 0]
    /\ latest_history_id = [p \in Runners |-> NoCursor]
    /\ processed = [p \in Runners |-> 0]
    /\ msg_id = [p \in Runners |-> NoMsg]
    /\ result = [p \in Runners |-> NoResult]
    /\ row = [p \in Runners |-> NoRow]
    /\ rejected = [p \in Runners |-> FALSE]
    /\ applied = 0
    /\ triggers = 0

\* no history is being read
NoHistory == stored = Pending /\ gmail_history = Pending /\ history = Pending

\* no directory write is being made
NoDirectory == directory = {} /\ written = Pending

\* no feed is being paged through
NoPaging == feed = <<>> /\ fetched = Pending

Init ==
    /\ InitPoll /\ NoHistory /\ NoDirectory /\ NoPaging
    /\ data = Pending
    /\ classification = Pending
    /\ client_data = Pending
    /\ email_result = Pending

\* a message is added to the mailbox (INBOX, primary)
Arrive ==
    /\ mailbox < MaxMsgs
    /\ mailbox' = mailbox + 1
    /\ Silent
    /\ UNCHANGED <<pure, store, reported, pc, pollLocals, runLocals, ghosts>>

\* poll_gmail line 98: history_id = get_gmail_state()
poll_gmail(p) ==
    /\ pc[p] = "idle"
    /\ p = "manual" => triggers < MaxTriggers
    /\ triggers' = IF p = "manual" THEN triggers + 1 ELSE triggers
    /\ history_id' = [history_id EXCEPT ![p] = gmail_state]
    /\ pc' = [pc EXCEPT ![p] = IF gmail_state = NoCursor
                               THEN "first_run" ELSE "get_new_messages"]
    /\ Silent
    /\ UNCHANGED <<pure, mailbox, store, reported, new_messages, i,
                   latest_history_id, processed, runLocals, applied, orders0>>

\* the handler reports the error and lets it go on to the caller
poll_failed_reraise(p) ==
    /\ telegram' = {[kind |-> "poll_error", msg_id |-> NoMsg]}
    /\ sent' \in Sink(telegram')
    /\ Leave(p, "raised")

\* the handler logs the error and tells nobody
poll_failed_silent(p) ==
    /\ telegram' = {}
    /\ sent' = "none"
    /\ Return(p)

\* poll_gmail lines 168-176: an error of the cycle outside the per-message
\* try is logged and reported, and the count so far is returned
poll_failed(p) ==
    /\ telegram' = {[kind |-> "poll_error", msg_id |-> NoMsg]}
    /\ sent' \in Sink(telegram')
    /\ Return(p)

\* poll_gmail line 98 raises (the store cannot be read)
get_gmail_state_fails(p) ==
    /\ pc[p] = "idle"
    /\ p = "manual" => triggers < MaxTriggers
    /\ triggers' = IF p = "manual" THEN triggers + 1 ELSE triggers
    /\ history_error' = NoError
    /\ poll_failed(p)
    /\ UNCHANGED <<pure, mailbox, store, reported, applied, orders0>>

\* poll_gmail line 102 raises (the mailbox profile cannot be read)
first_run_fails(p) ==
    /\ pc[p] = "first_run"
    /\ history_error' = NoError
    /\ poll_failed(p)
    /\ UNCHANGED <<pure, mailbox, store, reported, ghosts>>

\* poll_gmail line 102: current = client.get_current_history_id(), held
\* here in latest_history_id
first_run(p) ==
    /\ pc[p] = "first_run"
    /\ latest_history_id' = [latest_history_id EXCEPT ![p] =
                                get_current_history_id(mailbox)]
    /\ pc' = [pc EXCEPT ![p] = "set_gmail_state"]
    /\ Silent
    /\ UNCHANGED <<pure, mailbox, store, reported, history_id, new_messages, i,
                   processed, runLocals, ghosts>>

\* poll_gmail lines 103-109: the position is stored, the operator is told
first_run_set(p) ==
    /\ pc[p] = "set_gmail_state"
    /\ gmail_state' = set_gmail_state(gmail_state, latest_history_id[p])
    /\ Notify("started", NoMsg)
    /\ Return(p)
    /\ UNCHANGED <<pure, mailbox, email_history, clients, reported, ghosts>>

\* after the body of the for loop: the next msg_info, or the end of the loop
Continue(p) ==
    /\ i' = [i EXCEPT ![p] = @ + 1]
    /\ pc' = [pc EXCEPT ![p] = IF i[p] < Len(new_messages[p])
                               THEN "email_already_processed" ELSE "persist"]
    /\ ResetRun(p)

\* poll_gmail lines 112-120: the fetch answers with messages
fetch_messages(p) ==
    /\ pc[p] = "get_new_messages"
    /\ mailbox > history_id[p] - BasePos
    /\ \E hs \in PageIds(history_id[p] - BasePos + 1, mailbox) :
         new_messages' = [new_messages EXCEPT ![p] =
                             get_new_messages(history_id[p], mailbox, hs)]
    /\ i' = [i EXCEPT ![p] = 1]
    /\ latest_history_id' = [latest_history_id EXCEPT ![p] =
                                InitialLatest(history_id[p])]
    /\ pc' = [pc EXCEPT ![p] = "email_already_processed"]
    /\ Silent
    /\ UNCHANGED <<pure, mailbox, store, reported, history_id, processed,
                   runLocals, ghosts>>

\* poll_gmail lines 114-116: the feed has no record after history_id
fetch_nothing(p) ==
    /\ pc[p] = "get_new_messages"
    /\ mailbox = history_id[p] - BasePos
    /\ Silent
    /\ Return(p)
    /\ UNCHANGED <<pure, mailbox, store, reported, ghosts>>

\* every error is taken for a fatal one
IsExpired_never(e) == FALSE

\* get_new_messages line 102: "404" in error_str. (The second test looks
\* for "historyId" in the lowercased text and is never true.)
IsExpired(e) == e = Expired

\* history.list raises e. Expired: get_new_messages lines 103-107 log a
\* warning and return [], poll_gmail lines 114-116 return 0. Any other
\* error: line 108 raises, poll_gmail lines 168-176 report it.
fetch_error(p) ==
    /\ pc[p] = "get_new_messages"
    /\ \E e \in HistoryErrors :
         /\ history_error' = e
         /\ IF IsExpired(e)
               THEN telegram' = {} /\ sent' = "none" /\ Return(p)
               ELSE poll_failed(p)
    /\ UNCHANGED <<pure, mailbox, store, reported, ghosts>>

\* ------------------------------------------------------------ the for loop
msg_info(p) == new_messages[p][i[p]]

\* poll_gmail lines 126-128: the message has a row already, `continue`
skip_processed(p) ==
    /\ pc[p] = "email_already_processed"
    /\ email_already_processed(email_history, msg_info(p).msg_id)
    /\ Continue(p)
    /\ Silent
    /\ UNCHANGED <<pure, mailbox, store, reported, history_id, new_messages,
                   latest_history_id, processed, ghosts>>

\* poll_gmail line 126: no row yet, the message goes on to the try block
not_processed(p) ==
    /\ pc[p] = "email_already_processed"
    /\ ~email_already_processed(email_history, msg_info(p).msg_id)
    /\ msg_id' = [msg_id EXCEPT ![p] = msg_info(p).msg_id]
    /\ pc' = [pc EXCEPT ![p] = "classify"]
    /\ Silent
    /\ UNCHANGED <<pure, mailbox, store, reported, pollLocals, result, row,
                   rejected, ghosts>>

\* email_already_processed raises (store error): it is outside the inner
\* try, so the cycle ends in poll_gmail lines 168-176
check_error(p) ==
    /\ pc[p] = "email_already_processed"
    /\ history_error' = NoError
    /\ poll_failed(p)
    /\ UNCHANGED <<pure, mailbox, store, reported, ghosts>>

\* poll_gmail lines 157-159 and the next iteration
EndOfBody(p) ==
    /\ latest_history_id' = [latest_history_id EXCEPT ![p] =
                                NextLatest(@, msg_info(p))]
    /\ Continue(p)

\* poll_gmail line 132 raises: lines 149-155, then lines 157-159
get_message_fails(p) ==
    /\ p \in Pollers
    /\ pc[p] = "classify"
    /\ NotifyError("msg_error", msg_id[p])
    /\ EndOfBody(p)
    /\ UNCHANGED <<pure, mailbox, store, history_id, new_messages, processed,
                   ghosts>>

\* ------------------------------------------------- classify_and_process
Res(nr, found, tmpl, fb, draft, disc) ==
    [needs_reply |-> nr, client_found |-> found, template_used |-> tmpl,
     needs_ai_fallback |-> fb, draft_reply |-> draft, discount |-> disc]

\* process_classified_email lines 116-199: the result for classification c
\* when get_client answers `client` (draft_reply: the draft is non-empty;
\* discount: apply_discount)
lookup(c, client) ==
    IF ~c.needs_reply
        THEN Res(FALSE, FALSE, FALSE, FALSE, TRUE, FALSE)
    ELSE IF ~client_known(c.client_email)
        THEN Res(TRUE, FALSE, FALSE, TRUE, FALSE, FALSE)
    ELSE IF ~REPLY_TEMPLATES(c.situation, PaymentType)
        THEN Res(TRUE, TRUE, FALSE, TRUE, FALSE, FALSE)
    ELSE Res(TRUE, TRUE, TRUE, FALSE, TRUE, apply_discount(client, c.price))

\* classify_and_process lines 335-343 (poll_gmail line 132 included for a
\* poll cycle's message): the error is reported and returned as text,
\* nothing is raised
classify_fails(p) ==
    /\ pc[p] = "classify"
    /\ NotifyError("email_error", msg_id[p])
    /\ result' = [result EXCEPT ![p] = NoResult]
    /\ pc' = [pc EXCEPT ![p] = "return"]
    /\ UNCHANGED <<pure, mailbox, store, pollLocals, msg_id, row, rejected, ghosts>>

\* classify_and_process lines 211-248: the classifier answers, the
\* normaliser builds the classification, process_classified_email reads the
\* client and decides (get_client is the step's one read of the store)
classify(p) ==
    /\ pc[p] = "classify"
    /\ \E c \in Classifications :
         LET r == lookup(c, clients) IN
           /\ result' = [result EXCEPT ![p] = r]
           /\ applied' = IF r.discount THEN applied + 1 ELSE applied
           /\ pc' = [pc EXCEPT ![p] =
                        IF r.discount THEN "decrement_discount"
                        ELSE IF r.needs_ai_fallback THEN "fallback"
                        ELSE "save_inbound"]
           /\ IF ~r.client_found /\ r.needs_reply
                 THEN Notify("new_client", msg_id[p])
                 ELSE Silent
    /\ UNCHANGED <<pure, mailbox, store, reported, pollLocals, msg_id, row,
                   rejected, orders0, triggers>>

\* decrement_discount lines 136-139: the session reads the row
decrement_discount(p) ==
    /\ pc[p] = "decrement_discount"
    /\ row' = [row EXCEPT ![p] = clients]
    /\ pc' = [pc EXCEPT ![p] = IF decrement_guard(clients)
                               THEN "commit" ELSE "save_inbound"]
    /\ Silent
    /\ UNCHANGED <<pure, mailbox, store, reported, pollLocals, msg_id, result,
                   rejected, ghosts>>

\* decrement_discount lines 140-143: the session commits
decrement_discount_commit(p) ==
    /\ pc[p] = "commit"
    /\ clients' = decrement_commit(clients, row[p])
    /\ pc' = [pc EXCEPT ![p] = "save_inbound"]
    /\ Silent
    /\ UNCHANGED <<pure, mailbox, gmail_state, email_history, reported, pollLocals,
                   runLocals, ghosts>>

\* the draft is written and the flag is left standing
fallback_flag_kept(p) ==
    /\ pc[p] = "fallback"
    /\ \E text \in BOOLEAN :
         result' = [result EXCEPT ![p].draft_reply = text]
    /\ pc' = [pc EXCEPT ![p] = "save_inbound"]
    /\ Silent
    /\ UNCHANGED <<pure, mailbox, store, reported, pollLocals, msg_id, row,
                   rejected, ghosts>>

\* classify_and_process lines 251-300: the fallback agent writes the draft
\* (draft_reply: whether the text is non-empty)
fallback(p) ==
    /\ pc[p] = "fallback"
    /\ \E text \in BOOLEAN :
         result' = [result EXCEPT ![p].draft_reply = text,
                                  ![p].needs_ai_fallback = FALSE]
    /\ pc' = [pc EXCEPT ![p] = "save_inbound"]
    /\ Silent
    /\ UNCHANGED <<pure, mailbox, store, reported, pollLocals, msg_id, row,
                   rejected, ghosts>>

\* lines 263-298 raise (the history query or the fallback agent): lines
\* 335-343
fallback_fails(p) ==
    /\ pc[p] = "fallback"
    /\ NotifyError("email_error", msg_id[p])
    /\ result' = [result EXCEPT ![p] = NoResult]
    /\ pc' = [pc EXCEPT ![p] = "return"]
    /\ UNCHANGED <<pure, mailbox, store, pollLocals, msg_id, row, rejected, ghosts>>

\* every result with a draft gets an outbound record
has_reply_any(r) == r.draft_reply

\* classify_and_process line 324: result["needs_reply"] and
\* result.get("draft_reply")
has_reply(r) == r.needs_reply /\ r.draft_reply

\* classify_and_process lines 316-323: the inbound record
save_inbound(p) ==
    /\ pc[p] = "save_inbound"
    /\ LET rec == EmailRecord("inbound", msg_id[p]) IN
         /\ email_history' = save_email(email_history, rec)
         /\ rejected' = [rejected EXCEPT ![p] = UniqueViolation(email_history, rec)]
    /\ pc' = [pc EXCEPT ![p] =
                 IF has_reply(result[p])
                 THEN "save_outbound" ELSE "return"]
    /\ Silent
    /\ UNCHANGED <<pure, mailbox, gmail_state, clients, reported, pollLocals,
                   msg_id, result, row, ghosts>>

\* classify_and_process lines 324-331: the outbound record
save_outbound(p) ==
    /\ pc[p] = "save_outbound"
    /\ email_history' = save_email(email_history, EmailRecord("outbound", NoMsg))
    /\ pc' = [pc EXCEPT ![p] = "return"]
    /\ Silent
    /\ UNCHANGED <<pure, mailbox, gmail_state, clients, reported, pollLocals,
                   runLocals, ghosts>>

\* classify_and_process returns to poll_gmail: lines 145-147, 157-159
\* (line 147 is reached when line 145 has not raised)
send_result(p) ==
    /\ p \in Pollers
    /\ pc[p] = "return"
    /\ Notify("result", msg_id[p])
    /\ processed' = [processed EXCEPT ![p] =
                        IF sent' = "raise" THEN @ ELSE @ + 1]
    /\ EndOfBody(p)
    /\ UNCHANGED <<pure, mailbox, store, reported, history_id, new_messages, ghosts>>

\* poll_gmail lines 161-176: the cursor is stored if it moved
persist(p) ==
    /\ pc[p] = "persist"
    /\ gmail_state' = IF latest_history_id[p] # history_id[p]
                      THEN set_gmail_state(gmail_state, latest_history_id[p])
                      ELSE gmail_state
    /\ Silent
    /\ Return(p)
    /\ UNCHANGED <<pure, mailbox, email_history, clients, reported, ghosts>>

\* classify_and_process called directly (the email agent's tool), with the
\* id of a mailbox message or without one
direct_run ==
    /\ pc[Direct] = "idle"
    /\ triggers < MaxTriggers
    /\ triggers' = triggers + 1
    /\ \E m \in 0..mailbox : msg_id' = [msg_id EXCEPT ![Direct] = m]
    /\ pc' = [pc EXCEPT ![Direct] = "classify"]
    /\ Silent
    /\ UNCHANGED <<pure, mailbox, store, reported, pollLocals, result, row,
                   rejected, applied, orders0>>

\* classify_and_process returns to the agent
direct_return ==
    /\ pc[Direct] = "return"
    /\ Silent
    /\ Return(Direct)
    /\ UNCHANGED <<pure, mailbox, store, reported, ghosts>>

\* ------------------------------------------------------------ specifications
Quiet == \A q \in Runners : pc[q] = "idle"

Pipeline(p) ==
    \/ classify(p) \/ classify_fails(p)
    \/ decrement_discount(p) \/ decrement_discount_commit(p)
    \/ fallback(p) \/ fallback_fails(p)
    \/ save_inbound(p) \/ save_outbound(p)

Cycle(p) ==
    \/ first_run(p) \/ first_run_fails(p) \/ first_run_set(p)
    \/ fetch_messages(p) \/ fetch_nothing(p) \/ fetch_error(p)
    \/ skip_processed(p) \/ not_processed(p) \/ check_error(p)
    \/ get_message_fails(p)
    \/ send_result(p) \/ persist(p)

\* the timer loop and the manual trigger run their cycles at any time
Next ==
    \/ Arrive
    \/ \E p \in Pollers : \/ poll_gmail(p) \/ get_gmail_state_fails(p)
                           \/ Cycle(p) \/ Pipeline(p)

Spec == Init /\ [][Next]_vars

\* one cycle or direct run at a time
NextSeq ==
    \/ Arrive
    \/ \E p \in Pollers : \/ (Quiet /\ poll_gmail(p))
                           \/ (Quiet /\ get_gmail_state_fails(p))
                           \/ Cycle(p) \/ Pipeline(p)
    \/ (Quiet /\ direct_run) \/ Pipeline(Direct) \/ direct_return

SpecSeq == Init /\ [][NextSeq]_vars

\* _gmail_poll_loop (main.py lines 64-71): the loop starts a cycle every
\* GMAIL_POLL_INTERVAL seconds, whatever the last one did, and a cycle or a
\* run that has started keeps taking steps until it returns
Scheduling ==
    /\ WF_vars(Quiet /\ (poll_gmail("timer") \/ get_gmail_state_fails("timer")))
    /\ WF_vars(Cycle("timer") \/ Pipeline("timer"))
    /\ WF_vars(Cycle("manual") \/ Pipeline("manual"))
    /\ WF_vars(Pipeline(Direct) \/ direct_return)

\* history.list does not fail for ever: of the timer's fetches, one answers
MailboxAnswers ==
    SF_vars(fetch_messages("timer") \/ fetch_nothing("timer"))

\* one cycle or direct run at a time, the timer loop running for ever and
\* the mailbox answering in the end
SpecLive == Init /\ [][NextSeq]_vars /\ Scheduling /\ MailboxAnswers

TypeOK ==
    /\ mailbox \in 0..MaxMsgs
    /\ gmail_state \in 0..(BasePos + MaxMsgs)
    /\ clients.discount_orders_left \in 0..MaxOrders

\* ------------------------------------------- the classification normaliser
\* A JSON value of the payload: its type, its text (a sequence of
\* characters) and, for a map, its entries.
NestedKeys == {"situation", "email", "price"}

Scalar(t, v) == [type |-> t, v |-> v]
AbsentScalar == Scalar("absent", <<>>)
NoItems == [k \in NestedKeys |-> AbsentScalar]

Json(t, v, items) == [type |-> t, v |-> v, items |-> items]
Absent == Json("absent", <<>>, NoItems)
None == Json("null", <<>>, NoItems)
JTrue == Json("bool", <<"true">>, NoItems)
JFalse == Json("bool", <<"false">>, NoItems)
JStr(v) == Json("str", v, NoItems)
JList(v) == Json("list", v, NoItems)
JDict(items) == Json("dict", <<>>, items)

\* the values inside a nested map, and the nested maps with at most one entry
NestedValues == {Scalar("null", <<>>), Scalar("str", <<"x">>),
                 Scalar("list", <<"x">>)}

Dicts ==
    {JDict(NoItems)} \cup
    {JDict([NoItems EXCEPT ![k] = x]) : k \in NestedKeys, x \in NestedValues}

TopValues ==
    {None, JTrue, JFalse, JStr(<<>>), JStr(<<"x">>), JList(<<>>),
     JList(<<"x">>)} \cup Dicts

\* the keys the classifier's payload may carry here: canonical names, alias
\* names, and one name ("order") that no field looks for
PayloadKeys ==
    {"needs_reply", "situation", "classification", "customer_email", "items",
     "order"}

\* the key sets of a payload: at most MaxEntries keys
PayloadShapes == {T \in SUBSET PayloadKeys : Cardinality(T) <= MaxEntries}

\* json.loads(json_str), when it is a map: the payload with keys S and
\* values g
Payload(S, g) == [k \in PayloadKeys |-> IF k \in S THEN g[k] ELSE Absent]

\* `key in d and d[key] is not None`, at the top level
Has(d, key) == key \in DOMAIN d /\ d[key].type \notin {"absent", "null"}

\* _find_value lines 184-186: the first of keys found at the top level
RECURSIVE find_top(_, _)
find_top(d, keys) ==
    IF keys = <<>> THEN None
    ELSE IF Has(d, Head(keys)) THEN d[Head(keys)]
    ELSE find_top(d, Tail(keys))

\* _find_value lines 190-192: the first of keys found in the nested map v
RECURSIVE find_nested(_, _)
find_nested(v, keys) ==
    IF keys = <<>> THEN None
    ELSE IF Head(keys) \in NestedKeys
              /\ v.items[Head(keys)].type \notin {"absent", "null"}
         THEN Json(v.items[Head(keys)].type, v.items[Head(keys)].v, NoItems)
    ELSE find_nested(v, Tail(keys))

\* _find_value: the top level first, then one level of nested maps (the
\* payload holds at most one, so the order of data.values() is immaterial)
_find_value(d, keys) ==
    IF find_top(d, keys) # None THEN find_top(d, keys)
    ELSE IF \E k \in DOMAIN d : d[k].type = "dict"
                                 /\ find_nested(d[k], keys) # None
         THEN find_nested(d[CHOOSE k \in DOMAIN d :
                               d[k].type = "dict"
                               /\ find_nested(d[k], keys) # None], keys)
    ELSE None

\* Python truth value of a JSON value
Truthy(x) ==
    /\ x.type \notin {"absent", "null"}
    /\ x.type = "bool" => x.v = <<"true">>
    /\ x.type \in {"str", "list"} => x.v # <<>>
    /\ x.type = "dict" => x.items # NoItems

\* `x or default`
Or(x, default) == IF Truthy(x) THEN x ELSE default

\* the key aliases of each field, in the order lines 217-225 try them
FieldKeys ==
    [needs_reply |-> <<"needs_reply">>,
     situation |-> <<"situation", "classification", "category">>,
     client_email |-> <<"client_email", "real_customer_email",
                        "customer_email", "email">>,
     client_name |-> <<"client_name", "customer_name", "name", "firstname">>,
     order_id |-> <<"order_id", "order_number">>,
     price |-> <<"price", "payment_amount", "total", "amount">>,
     customer_street |-> <<"customer_street", "street", "street_address",
                           "address">>,
     customer_city_state_zip |-> <<"customer_city_state_zip",
                                   "city_state_zip">>,
     items |-> <<"items", "products", "order_items">>]

OptionalFields ==
    {"client_name", "order_id", "price", "customer_street",
     "customer_city_state_zip", "items"}

\* the keyword arguments of EmailClassification(...), lines 216-226
Arguments(d) ==
    [f \in DOMAIN FieldKeys |->
        IF f = "needs_reply"
            THEN IF _find_value(d, FieldKeys[f]) # None
                 THEN _find_value(d, FieldKeys[f]) ELSE JTrue
        ELSE IF f = "situation"
            THEN Or(_find_value(d, FieldKeys[f]), JStr(<<"other">>))
        ELSE IF f = "client_email"
            THEN Or(_find_value(d, FieldKeys[f]), JStr(<<>>))
        ELSE _find_value(d, FieldKeys[f])]

\* the field types of EmailClassification (lines 25-38), as pydantic checks
\* them: bool, str, Optional[str]. A list or a map is no str, a text that is
\* not a boolean word is no bool.
Valid(f, x) ==
    IF f = "needs_reply" THEN x.type = "bool"
    ELSE IF f \in OptionalFields THEN x.type \in {"str", "null"}
    ELSE x.type = "str"

ValidationError == [status |-> "ValidationError"]

\* json.loads(json_str), line 216, when the classifier's text is no JSON
JSONDecodeError == [status |-> "JSONDecodeError"]

\* EmailClassification(**args): the model, or the ValidationError it raises
EmailClassification(args) ==
    IF \A f \in DOMAIN args : Valid(f, args[f])
    THEN [status |-> "ok",
          needs_reply |-> args.needs_reply.v = <<"true">>,
          situation |-> args.situation.v,
          client_email |-> args.client_email.v,
          client_name |-> args.client_name,
          order_id |-> args.order_id,
          price |-> args.price,
          customer_street |-> args.customer_street,
          customer_city_state_zip |-> args.customer_city_state_zip,
          items |-> args.items]
    ELSE ValidationError

\* classify_and_process lines 214-229 on what json.loads made of the
\* classifier's text; a JSONDecodeError or a ValidationError is caught at
\* line 335 and reported (lines 337-343)
normalize ==
    /\ classification = Pending
    /\ data # Pending
    /\ classification' = IF data = JSONDecodeError THEN JSONDecodeError
                         ELSE EmailClassification(Arguments(data))
    /\ telegram' = IF classification'.status = "ok"
                    THEN {} ELSE error_notification("email_error", NoMsg)
    /\ sent' \in Sink(telegram')
    /\ UNCHANGED <<poll, data, client_data, email_result, hist, dir, paging>>

InitNorm ==
    /\ InitPoll /\ orders0 = 0 /\ NoHistory /\ NoDirectory /\ NoPaging
    /\ \/ \E S \in PayloadShapes : \E g \in [S -> TopValues] :
            /\ Cardinality({k \in S : g[k].type = "dict"}) <= 1
            /\ data = Payload(S, g)
       \/ data = JSONDecodeError
    /\ classification = Pending
    /\ client_data = Pending
    /\ email_result = Pending

NextNorm == normalize

\* the normaliser on every payload with at most one nested map
SpecNorm == InitNorm /\ [][NextNorm]_vars

\* ------------------------------------------------------ the template engine
\* A text is a sequence of characters; the fixed stretches of a template are
\* kept as one character each.
Placeholders ==
    {"{PRICE}", "{DISCOUNT}", "{FINAL_PRICE}", "{ZELLE_ADDRESS}",
     "{CUSTOMER_NAME}", "{CUSTOMER_STREET}", "{CUSTOMER_CITY_STATE_ZIP}",
     "{TRACKING_URL}"}

\* REPLY_TEMPLATES[("new_order", "prepay")], lines 46-57
PrepayTemplate ==
    <<"Thank you so much for placing an order\nYour total is ",
      "{PRICE}", " - ", "{DISCOUNT}", "% = ", "{FINAL_PRICE}",
      " FREE shipping\n\n!!! Zelle ... use email below\n\n",
      "{ZELLE_ADDRESS}",
      "\n\nIf paid today, ... Thank you!">>

\* REPLY_TEMPLATES[("new_order", "postpay")], lines 58-76
PostpayTemplate ==
    <<"Hello!\n ... Total is ",
      "{PRICE}", " - ", "{DISCOUNT}", "% = ", "{FINAL_PRICE}",
      " FREE shipping applied\nPay when received ... day of the shipping\n",
      "{TRACKING_URL}", "\n\n", "{CUSTOMER_NAME}", "\n",
      "{CUSTOMER_STREET}", "\n", "{CUSTOMER_CITY_STATE_ZIP}">>

\* REPLY_TEMPLATES.get((situation, payment_type)) for a key of the table
TemplateText(situation, payment_type) ==
    IF payment_type = "postpay" THEN PostpayTemplate ELSE PrepayTemplate

\* str.replace(old, new): every occurrence, left to right
RECURSIVE Replace(_, _, _)
Replace(text, old, new) ==
    IF Len(text) < Len(old) \/ old = <<>> THEN text
    ELSE IF SubSeq(text, 1, Len(old)) = old
         THEN new \o Replace(SubSeq(text, Len(old) + 1, Len(text)), old, new)
    ELSE <<Head(text)>> \o Replace(Tail(text), old, new)

Digits == {"0", "1", "2", "3", "4", "5", "6", "7", "8", "9"}

DigitValue(c) ==
    CASE c = "0" -> 0 [] c = "1" -> 1 [] c = "2" -> 2 [] c = "3" -> 3
      [] c = "4" -> 4 [] c = "5" -> 5 [] c = "6" -> 6 [] c = "7" -> 7
      [] c = "8" -> 8 [] c = "9" -> 9

DigitChar(n) == <<"0", "1", "2", "3", "4", "5", "6", "7", "8", "9">>[n + 1]

\* the number a string of digits writes
RECURSIVE Number(_)
Number(ds) ==
    IF ds = <<>> THEN 0
    ELSE 10 * Number(SubSeq(ds, 1, Len(ds) - 1)) + DigitValue(ds[Len(ds)])

RECURSIVE Pow10(_)
Pow10(n) == IF n = 0 THEN 1 ELSE 10 * Pow10(n - 1)

\* str(n) for n >= 0
RECURSIVE Str(_)
Str(n) == IF n < 10 THEN <<DigitChar(n)>>
          ELSE Str(n \div 10) \o <<DigitChar(n % 10)>>

\* the places of the dots of a text
Dots(text) == {k \in DOMAIN text : text[k] = "."}

\* float(text) for the texts met here: an optional "-", digits, and at most
\* one "." among them, at least one digit in all. Anything else among these
\* texts raises ValueError. The value is num / den.
IsFloat(text) ==
    LET body == IF text # <<>> /\ Head(text) = "-" THEN Tail(text) ELSE text
    IN /\ \A k \in DOMAIN body : body[k] \in Digits \cup {"."}
       /\ Cardinality(Dots(body)) <= 1
       /\ \E k \in DOMAIN body : body[k] \in Digits

float(text) ==
    LET neg == Head(text) = "-"
        body == IF neg THEN Tail(text) ELSE text
        digits == SelectSeq(body, LAMBDA c : c \in Digits)
        decimals == IF Dots(body) = {} THEN 0
                    ELSE Len(body) - (CHOOSE k \in Dots(body) : TRUE)
    IN [num |-> IF neg THEN 0 - Number(digits) ELSE Number(digits),
        den |-> Pow10(decimals)]

\* a text that is no number counts as a price of 1
price_num_one(price) ==
    LET price_clean == SelectSeq(price, LAMBDA c : c \notin {"$", ","})
    IN IF IsFloat(price_clean) THEN float(price_clean)
       ELSE [num |-> 1, den |-> 1]

\* process_classified_email lines 159-163: price_num
price_num(price) ==
    LET price_clean == SelectSeq(price, LAMBDA c : c \notin {"$", ","})
    IN IF IsFloat(price_clean) THEN float(price_clean)
       ELSE [num |-> 0, den |-> 1]

\* the amount taken off instead of the amount left
discounted_off(pn, discount) ==
    [num |-> pn.num * discount, den |-> pn.den * 100]

\* line 168: price_num * (1 - discount / 100)
discounted(pn, discount) ==
    [num |-> pn.num * (100 - discount), den |-> pn.den * 100]

\* f"{x:.2f}" for x >= 0: x to the nearest hundredth. Where x lies half way
\* between two hundredths, the binary float that stands for it lies a little
\* to one side or the other, and the text goes with it.
Format2f(x) ==
    LET floor == (x.num * 100) \div x.den
        rem == (x.num * 100) % x.den
        hundredths == IF 2 * rem < x.den THEN {floor}
                      ELSE IF 2 * rem > x.den THEN {floor + 1}
                      ELSE {floor, floor + 1}
    IN { Str(h \div 100) \o <<".", DigitChar((h % 100) \div 10),
                               DigitChar(h % 10)>> : h \in hundredths }

\* `x or ""` for an Optional[str] field
Text(x) == IF x.type = "str" THEN x.v ELSE <<>>

\* six of the eight placeholders are substituted
Substitutions_six(price, discount_str, final_price, client, c) ==
    << <<"{PRICE}", price>>,
       <<"{DISCOUNT}", discount_str>>,
       <<"{FINAL_PRICE}", final_price>>,
       <<"{CUSTOMER_NAME}",
         IF Text(c.client_name) # <<>> THEN Text(c.client_name) ELSE client.name>>,
       <<"{CUSTOMER_STREET}", Text(c.customer_street)>>,
       <<"{CUSTOMER_CITY_STATE_ZIP}", Text(c.customer_city_state_zip)>> >>

\* lines 175-183: the placeholders and their values, in the order of the
\* replace calls
Substitutions(price, discount_str, final_price, client, c) ==
    << <<"{PRICE}", price>>,
       <<"{DISCOUNT}", discount_str>>,
       <<"{FINAL_PRICE}", final_price>>,
       <<"{ZELLE_ADDRESS}", client.zelle_address>>,
       <<"{CUSTOMER_NAME}",
         IF Text(c.client_name) # <<>> THEN Text(c.client_name) ELSE client.name>>,
       <<"{CUSTOMER_STREET}", Text(c.customer_street)>>,
       <<"{CUSTOMER_CITY_STATE_ZIP}", Text(c.customer_city_state_zip)>>,
       <<"{TRACKING_URL}", <<"[tracking URL pending]">> >> >>

\* reply = reply.replace(token, value), one substitution after the other
RECURSIVE Fill(_, _)
Fill(reply, subs) ==
    IF subs = <<>> THEN reply
    ELSE Fill(Replace(reply, <<Head(subs)[1]>>, Head(subs)[2]), Tail(subs))

\* the price line is left as the substitutions made it
cleanup_none(reply, price, apply) == reply

\* lines 186-187: without discount and with a price, "p - 0% = p" becomes "p"
cleanup(reply, price, apply) ==
    IF ~apply /\ price # <<>>
    THEN Replace(reply, price \o <<" - ", "0", "% = ">> \o price, price)
    ELSE reply

\* a situation or payment type name, held as one character of its text
Word(text) == IF Len(text) = 1 THEN text[1] ELSE ""

\* get_client returned None
NoClientRow == [status |-> "None"]

\* result["client_data"] for an unknown client, line 139
UnknownData == [status |-> "unknown"]

Result(nr, found, cdata, tmpl, draft, fb, disc) ==
    [status |-> "done", needs_reply |-> nr, client_found |-> found,
     client_data |-> cdata, template_used |-> tmpl, draft_reply |-> draft,
     needs_ai_fallback |-> fb, discount |-> disc]

\* process_classified_email lines 116-199 for classification c when
\* get_client answers `client`; final is the text of the :.2f formatting.
\* draft_reply None is the empty text; discount is apply_discount.
process_classified_email(c, client, final) ==
    IF ~c.needs_reply
        THEN Result(FALSE, FALSE, NoClientRow, FALSE,
                    <<"(No reply needed)">>, FALSE, FALSE)
    ELSE IF client.status # "found"
        THEN Result(TRUE, FALSE, UnknownData, FALSE, <<>>, TRUE, FALSE)
    ELSE IF ~REPLY_TEMPLATES(Word(c.situation), client.payment_type)
        THEN Result(TRUE, TRUE, client, FALSE, <<>>, TRUE, FALSE)
    ELSE
        LET price == Text(c.price)
            apply == apply_discount(client, price_num(price).num)
            final_price == IF apply THEN <<"$">> \o final ELSE price
            discount_str == IF apply THEN Str(client.discount_percent)
                            ELSE <<"0">>
            reply == Fill(TemplateText(Word(c.situation), client.payment_type),
                          Substitutions(price, discount_str, final_price,
                                        client, c))
        IN Result(TRUE, TRUE, client, TRUE, cleanup(reply, price, apply),
                  FALSE, apply)

\* the texts of the :.2f formatting for c and client (none without discount)
FinalTexts(c, client) ==
    IF /\ c.needs_reply /\ client.status = "found"
       /\ apply_discount(client, price_num(Text(c.price)).num)
    THEN Format2f(discounted(price_num(Text(c.price)), client.discount_percent))
    ELSE {<<>>}

\* process_classified_email(classification), with the decrement_discount it
\* calls at line 191 when the discount is applied
process ==
    /\ email_result = Pending
    /\ classification # Pending /\ client_data # Pending
    /\ \E final \in FinalTexts(classification, client_data) :
         email_result' =
             process_classified_email(classification, client_data, final)
    /\ client_data' =
         IF email_result'.discount /\ decrement_guard(client_data)
         THEN [client_data EXCEPT
                 !.discount_orders_left =
                     decrement_commit(client_data, client_data).discount_orders_left,
                 !.discount_percent =
                     decrement_commit(client_data, client_data).discount_percent]
         ELSE client_data
    /\ UNCHANGED <<poll, telegram, sent, data, classification, hist, dir, paging>>

\* price texts: missing, empty, not a number, zero, negative, and amounts
\* with and without a thousands separator
FillPrices ==
    {None, JStr(<<>>), JStr(<<"f", "r", "e", "e">>), JStr(<<"0">>),
     JStr(<<"-", "5">>),
     JStr(<<"$", "2", "2", "0", ".", "0", "0">>),
     JStr(<<"$", "1", ",", "0", "0", "0", ".", "0", "0">>),
     JStr(<<"$", "0", ".", "3", "0">>),
     JStr(<<"1", "9", ".", "9", "9">>)}

FillClassifications ==
    { [status |-> "ok", needs_reply |-> nr, situation |-> sit,
       client_email |-> <<"a@b.com">>, client_name |-> nm, order_id |-> None,
       price |-> pr, customer_street |-> st, customer_city_state_zip |-> csz,
       items |-> None] :
        nr \in BOOLEAN, sit \in {<<"new_order">>, <<"tracking">>},
        nm \in {None, JStr(<<"n">>)}, pr \in FillPrices,
        st \in {None, JStr(<<"s">>)}, csz \in {None, JStr(<<"c">>)} }

\* client rows as Client.to_dict gives them
ClientRows ==
    { [status |-> "found", name |-> <<"N">>, payment_type |-> pt,
       zelle_address |-> z, discount_percent |-> d,
       discount_orders_left |-> left] :
        pt \in {"prepay", "postpay", "cod"}, z \in {<<>>, <<"z">>},
        d \in {0, 5, 10}, left \in 0..MaxOrders }

InitFill ==
    /\ InitPoll /\ orders0 = 0 /\ NoHistory /\ NoDirectory /\ NoPaging
    /\ data = Pending
    /\ classification \in FillClassifications
    /\ client_data \in ClientRows \cup {NoClientRow}
    /\ email_result = Pending

NextFill == process

\* the template engine on every classification and client row of the sets
SpecFill == InitFill /\ [][NextFill]_vars

\* ------------------------------------------------ the history of a client
\* bounds of the histories tried: rows of a stored history, rows of a
\* history that takes every situation, records of a mailbox search
MaxRows == 11
MaxVaried == 4
MaxGmail == 10

\* get_email_history line 205 (.limit(50)), lines 212-213 (rows[:3],
\* rows[3:]) and line 193 (max_total = 10)
QueryLimit == 50
RecentRows == 3
max_total == 10

\* classify_and_process line 264 (len(history) < 3) and line 279
\* (history[-10:])
SparseHistory == 3
HistoryCut == 10

\* memory.py lines 153-161, and the .get(row.situation, 1) of line 218
_PRIORITY_SCORES(situation) ==
    CASE situation \in {"new_order", "discount_request"} -> 3
      [] situation \in {"payment_question", "shipping_timeline"} -> 2
      [] situation = "other" -> 1
      [] situation \in {"tracking", "payment_received"} -> 0
      [] OTHER -> 1

\* a datetime: its wall-clock reading, and for an aware one its UTC offset
Naive(wall) == [wall |-> wall, aware |-> FALSE, offset |-> 0]
Aware(wall, offset) == [wall |-> wall, aware |-> TRUE, offset |-> offset]

\* EmailHistory.to_dict (models.py lines 58-66), without client and body
HistoryRow(situation, subject, direction, created_at) ==
    [situation |-> situation, subject |-> subject, direction |-> direction,
     created_at |-> created_at]

Min(a, b) == IF a < b THEN a ELSE b
Range(seq) == {seq[k] : k \in DOMAIN seq}
Reverse(seq) == [k \in 1..Len(seq) |-> seq[Len(seq) + 1 - k]]

\* seq[:n], seq[n:] and seq[-n:]
Take(seq, n) == SubSeq(seq, 1, Min(n, Len(seq)))
Drop(seq, n) == SubSeq(seq, Min(n, Len(seq)) + 1, Len(seq))
Last(seq, n) == Drop(seq, Len(seq) - Min(n, Len(seq)))

\* list.sort(key=...): ascending and stable; keys[k] is the key of seq[k]
SortedBy(seq, keys) ==
    LET n == Len(seq)
        place(k) == 1 + Cardinality({j \in 1..n :
                          \/ keys[j] < keys[k]
                          \/ keys[j] = keys[k] /\ j < k})
    IN [q \in 1..n |-> seq[CHOOSE k \in 1..n : place(k) = q]]

\* get_email_history lines 201-207: the client's rows, newest first, at
\* most 50 (created_at of a stored row is its place in the table)
query(rows) == Take(Reverse(rows), QueryLimit)

\* the earlier rows are taken in the order of the query
scored_unsorted(earlier) == earlier

\* lines 216-220: the earlier rows by descending score; rows of one score
\* keep the order of the query (sort with reverse=True is stable)
scored(earlier) ==
    SortedBy(earlier, [k \in DOMAIN earlier |->
                          0 - _PRIORITY_SCORES(earlier[k].situation)])

\* no row is kept for being recent
recent_none(rows) == <<>>

\* line 212
recent(rows) == Take(rows, RecentRows)

\* get_email_history lines 208-230 on the stored rows of the client
get_email_history(rows) ==
    IF query(rows) = <<>> THEN <<>>
    ELSE LET earlier == Drop(query(rows), RecentRows)
             remaining_slots == max_total - Len(recent(query(rows)))
             selected_earlier == Take(scored(earlier), remaining_slots)
             combined == recent(query(rows)) \o selected_earlier
         IN SortedBy(combined, [k \in DOMAIN combined |->
                                  combined[k].created_at.wall])

\* the wall-clock reading is compared, whatever the zone
_sort_key_wall(h) == h.created_at.wall

\* classify_and_process lines 273-277: the POSIX timestamp, a naive
\* datetime read as UTC
_sort_key(h) ==
    IF h.created_at.aware THEN h.created_at.wall - h.created_at.offset
    ELSE h.created_at.wall

\* classify_and_process lines 266-279: the merge of the mailbox records gh
\* into the local history h
merge(h, gh) ==
    IF gh = <<>> THEN h
    ELSE LET local_subjects == {<<l.subject, l.direction>> : l \in Range(h)}
             added == SelectSeq(gh, LAMBDA g :
                          <<g.subject, g.direction>> \notin local_subjects)
             all == h \o added
         IN Last(SortedBy(all, [k \in DOMAIN all |-> _sort_key(all[k])]),
                 HistoryCut)

\* classify_and_process line 263
local_history ==
    /\ history = Pending
    /\ history' = [status |-> "local", rows |-> get_email_history(stored.rows)]
    /\ UNCHANGED <<poll, telegram, sent, data, classification, client_data,
                   email_result, stored, gmail_history, dir, paging>>

\* record j of a mailbox search: an inbound one with subject "a" and a
\* naive date, or an outbound one with that subject and a date at UTC+3
GmailKinds == {"inbound", "outbound"}
GmailRecord(kind, j) ==
    IF kind = "inbound"
    THEN HistoryRow("gmail", "a", "inbound", Naive(2 * j))
    ELSE HistoryRow("gmail", "a", "outbound", Aware(2 * j, 3))

\* classify_and_process lines 264-279: the local history is sparse, the
\* mailbox is searched and its records are merged in
gmail_supplement ==
    /\ history # Pending /\ gmail_history = Pending
    /\ Len(history.rows) < SparseHistory
    /\ \E m \in 0..MaxGmail : \E kinds \in [1..m -> GmailKinds] :
         LET gh == [j \in 1..m |-> GmailRecord(kinds[j], j)] IN
           /\ gmail_history' = [status |-> "done", rows |-> gh]
           /\ history' = [status |-> "merged", rows |-> merge(history.rows, gh)]
    /\ UNCHANGED <<poll, telegram, sent, data, classification, client_data,
                   email_result, stored, dir, paging>>

\* the situations a stored row may carry: those of the score table and one
\* it does not list
Situations ==
    {"new_order", "discount_request", "payment_question", "shipping_timeline",
     "other", "tracking", "payment_received", "price_question"}

\* the history of the spec's example: 3 older tracking rows, 2 older
\* high-priority rows, then the 3 recent rows
ExampleHistory ==
    [k \in 1..8 |->
        HistoryRow(<<"tracking", "tracking", "tracking", "new_order",
                     "discount_request", "tracking", "other",
                     "payment_received">>[k], "a", "inbound", Naive(k))]

\* a sparse history with two subjects, a short one with every situation, a
\* long one with a high and a low situation, or the example
InitHist ==
    /\ InitPoll /\ orders0 = 0 /\ NoDirectory /\ NoPaging
    /\ data = Pending /\ classification = Pending
    /\ client_data = Pending /\ email_result = Pending
    /\ gmail_history = Pending /\ history = Pending
    /\ \/ \E n \in 0..(SparseHistory - 1) :
            \E sit \in [1..n -> {"new_order", "tracking"}] :
            \E sub \in [1..n -> {"a", "b"}] :
              stored = [status |-> "rows", rows |-> [k \in 1..n |->
                           HistoryRow(sit[k], sub[k], "inbound", Naive(k))]]
       \/ \E n \in SparseHistory..MaxVaried : \E sit \in [1..n -> Situations] :
              stored = [status |-> "rows", rows |-> [k \in 1..n |->
                           HistoryRow(sit[k], "a", "inbound", Naive(k))]]
       \/ \E n \in (MaxVaried + 1)..MaxRows :
            \E sit \in [1..n -> {"new_order", "tracking"}] :
              stored = [status |-> "rows", rows |-> [k \in 1..n |->
                           HistoryRow(sit[k], "a", "inbound", Naive(k))]]
       \/ stored = [status |-> "rows", rows |-> ExampleHistory]

NextHist == local_history \/ gmail_supplement

\* the history selection and the merge on every history of these sets
SpecHist == InitHist /\ [][NextHist]_vars

\* ------------------------------------------------- the client directory
\* an email address as a caller writes it: its letters, whether some are
\* in upper case, whether blanks surround it
Emails ==
    {e \in [name : {"a", "b"}, upper : BOOLEAN, padded : BOOLEAN] :
        ~(e.upper /\ e.padded)}

\* email.lower().strip()
lower_strip(email) == [name |-> email.name, upper |-> FALSE, padded |-> FALSE]

PaymentTypes == {"prepay", "postpay", "cod"}
Discounts == {0 - 1, 100, 101}
UpdateFields == {"payment_type", "discount_percent"}

\* a row of the clients table (the fields the writes validate)
Client(email, payment_type, discount_percent) ==
    [email |-> email, payment_type |-> payment_type,
     discount_percent |-> discount_percent]

\* session.query(Client).filter_by(email=email).first()
Existing(email) == {c \in directory : c.email = email}

\* the percentage is only kept from being negative
discount_nonnegative(discount_percent) == 0 <= discount_percent

\* add_client line 63: 0 <= discount_percent <= 100
discount_in_range(discount_percent) ==
    0 <= discount_percent /\ discount_percent <= 100

\* what a write answers: "ok" (the row's dict or True), "ValueError",
\* "None" (update_client, not found) or "False" (delete_client, not found)
Outcome(op, email, given, payment_type, discount_percent, status) ==
    [op |-> op, email |-> email, given |-> given,
     payment_type |-> payment_type, discount_percent |-> discount_percent,
     status |-> status]

\* memory.py lines 49-86
add_client ==
    \E email \in Emails, payment_type \in PaymentTypes,
       discount_percent \in Discounts :
      LET Answer(status) == Outcome("add", email, UpdateFields, payment_type,
                                    discount_percent, status)
      IN /\ IF \/ payment_type \notin {"prepay", "postpay"}
               \/ ~discount_in_range(discount_percent)
               \/ Existing(lower_strip(email)) # {}
            THEN directory' = directory /\ written' = Answer("ValueError")
            ELSE /\ directory' = directory \cup
                        {Client(lower_strip(email), payment_type,
                                discount_percent)}
                 /\ written' = Answer("ok")
         /\ UNCHANGED <<poll, telegram, sent, data, classification,
                        client_data, email_result, hist, paging>>

\* memory.py lines 89-113; given: the fields passed with a value
update_client ==
    \E email \in Emails, given \in SUBSET UpdateFields :
    \E payment_type \in IF "payment_type" \in given
                         THEN PaymentTypes ELSE {"prepay"},
       discount_percent \in IF "discount_percent" \in given
                             THEN Discounts ELSE {100} :
      LET Answer(status) == Outcome("update", email, given, payment_type,
                                    discount_percent, status)
          client == Existing(lower_strip(email))
      IN /\ IF /\ "payment_type" \in given
               /\ payment_type \notin {"prepay", "postpay"}
            THEN directory' = directory /\ written' = Answer("ValueError")
            ELSE IF client = {}
            THEN directory' = directory /\ written' = Answer("None")
            ELSE /\ directory' = (directory \ client) \cup
                        {Client(c.email,
                                IF "payment_type" \in given
                                THEN payment_type ELSE c.payment_type,
                                IF "discount_percent" \in given
                                THEN discount_percent ELSE c.discount_percent) :
                            c \in client}
                 /\ written' = Answer("ok")
         /\ UNCHANGED <<poll, telegram, sent, data, classification,
                        client_data, email_result, hist, paging>>

\* memory.py lines 116-129
delete_client ==
    \E email \in Emails :
      LET Answer(status) == Outcome("delete", email, {}, "prepay", 100, status)
          client == Existing(lower_strip(email))
      IN /\ IF client = {}
            THEN directory' = directory /\ written' = Answer("False")
            ELSE directory' = directory \ client /\ written' = Answer("ok")
         /\ UNCHANGED <<poll, telegram, sent, data, classification,
                        client_data, email_result, hist, paging>>

InitDir ==
    /\ InitPoll /\ orders0 = 0 /\ NoHistory /\ NoDirectory /\ NoPaging
    /\ data = Pending /\ classification = Pending
    /\ client_data = Pending /\ email_result = Pending

NextDir == add_client \/ update_client \/ delete_client

\* the directory under any sequence of writes, one at a time
SpecDir == InitDir /\ [][NextDir]_vars

\* ------------------------------------------------ paging through the feed
\* bounds of the feeds tried: pages of one get_new_messages call,
\* messagesAdded entries of one page
MaxPages == 2
MaxAdded == 2

_SKIP_LABELS == {"CATEGORY_PROMOTIONS", "CATEGORY_SOCIAL", "CATEGORY_UPDATES",
                 "CATEGORY_FORUMS", "SPAM", "TRASH"}

\* a messagesAdded entry: msg["id"] and msg["labelIds"]
Added(id, labelIds) == [id |-> id, labelIds |-> labelIds]

\* the entries of the feeds tried: two messages of the primary inbox, the
\* second one also as the feed shows it under a category label
AddedEntries ==
    {Added(1, {"INBOX"}), Added(2, {"INBOX"}),
     Added(2, {"INBOX", "CATEGORY_PROMOTIONS"})}

\* an answer of history.list: its historyId and the messagesAdded entries
\* of its history records in their order, or the error it raised. Every
\* answer but the last carries a nextPageToken.
Page(status, historyId, added) ==
    [status |-> status, historyId |-> historyId, history |-> added]

\* get_new_messages line 117
primary_inbox(labels) ==
    /\ "INBOX" \in labels
    /\ "SENT" \notin labels
    /\ labels \cap _SKIP_LABELS = {}

\* get_new_messages lines 110-121 for one page
page_messages(page) ==
    LET kept == SelectSeq(page.history, LAMBDA a : primary_inbox(a.labelIds))
    IN [k \in 1..Len(kept) |->
           [msg_id |-> kept[k].id, history_id |-> page.historyId]]

\* get_new_messages lines 88-125: messages, once the last page is read
RECURSIVE messages(_)
messages(pages) ==
    IF pages = <<>> THEN <<>>
    ELSE messages(SubSeq(pages, 1, Len(pages) - 1))
            \o page_messages(pages[Len(pages)])

\* the list is returned as it was gathered
unique_all(ms) == ms

\* get_new_messages lines 128-133: the first entry of each msg_id is kept
RECURSIVE unique(_)
unique(ms) ==
    IF ms = <<>> THEN <<>>
    ELSE LET m == ms[Len(ms)]
             before == unique(SubSeq(ms, 1, Len(ms) - 1))
         IN IF \E k \in DOMAIN before : before[k].msg_id = m["msg_id"]
            THEN before ELSE Append(before, m)

\* get_new_messages for the answers `pages`: the list it returns, or the
\* error of lines 100-108 (an expired startHistoryId gives [], any other
\* error is raised)
list_history(pages) ==
    LET last == pages[Len(pages)] IN
    IF last.status = "ok"
        THEN [status |-> "ok", messages |-> unique(messages(pages))]
    ELSE IF IsExpired(last.status)
        THEN [status |-> "ok", messages |-> <<>>]
    ELSE [status |-> "raise", messages |-> <<>>]

\* GmailClient.get_new_messages(after_history_id), the whole call
fetch_pages ==
    /\ fetched = Pending /\ feed # <<>>
    /\ fetched' = list_history(feed)
    /\ UNCHANGED <<poll, telegram, sent, data, classification, client_data,
                   email_result, hist, dir, feed>>

\* the feeds: one to MaxPages answers, each answered page with up to
\* MaxAdded entries and the historyId of its place; an error ends the call,
\* so only the last answer can be one
InitPages ==
    /\ InitPoll /\ orders0 = 0 /\ NoDirectory /\ NoHistory
    /\ data = Pending /\ classification = Pending
    /\ client_data = Pending /\ email_result = Pending
    /\ fetched = Pending
    /\ \E n \in 1..MaxPages :
       \E last \in {"ok"} \cup HistoryErrors :
         \E entries \in [1..n -> UNION {[1..m -> AddedEntries] : m \in 0..MaxAdded}] :
           /\ last # "ok" => entries[n] = <<>>
           /\ feed = [k \in 1..n |->
                        Page(IF k = n THEN last ELSE "ok", BasePos + k,
                             entries[k])]

NextPages == fetch_pages

\* get_new_messages on every feed of these sets
SpecPages == InitPages /\ [][NextPages]_vars

\* ------------------------------------------------------------ properties
\* the rows of the history store that carry message id m
Rows(m) == {k \in DOMAIN email_history : email_history[k].gmail_message_id = m}

Recorded(m) == Rows(m) # {}

\* a pipeline run that has not yet reached its inbound insert
BeforeInsert(p) ==
    pc[p] \in {"classify", "decrement_discount", "commit", "fallback",
               "save_inbound"}

\* the step with which poller p ends a cycle that ran through its batch
PersistStep(p) == pc[p] = "persist" /\ pc'[p] = "idle"

\* the messages of p's batch
Batch(p) == {new_messages[p][j].msg_id : j \in DOMAIN new_messages[p]}

\* C1: with non-overlapping cycles, a poll cycle never takes a message whose
\* id has a record already into the pipeline (it is skipped before
\* get_message and the classifier), and no id has more than one record.
C1_SkippedBeforeClassification ==
    /\ \A p \in Pollers : BeforeInsert(p) => ~Recorded(msg_id[p])
    /\ \A m \in 1..MaxMsgs : Cardinality(Rows(m)) <= 1

\* a cycle has met a recorded message first in its batch and skipped it
C1_Witness ==
    \E p \in Pollers :
        /\ i[p] = 2
        /\ processed[p] = 0
        /\ new_messages[p][1].msg_id \notin reported
        /\ Cardinality(Rows(new_messages[p][1].msg_id)) = 1

\* C2: under every interleaving of two poll cycles the history store never
\* holds two records with the same non-null message id.
C2_UniqueMessageId ==
    \A j, k \in DOMAIN email_history :
        /\ email_history[j].gmail_message_id # NoMsg
        /\ email_history[j].gmail_message_id = email_history[k].gmail_message_id
        => j = k

\* the later of two inserts of one message id was rejected, and the run
\* went on without raising
C2_Witness ==
    \E p \in Pollers :
        /\ rejected[p]
        /\ pc[p] \in {"save_outbound", "return"}
        /\ Cardinality(Rows(msg_id[p])) = 1

\* C3: a pipeline run whose inbound insert was rejected adds no record to
\* the history store.
C3_RejectedRunAddsNothing ==
    [][\A p \in Runners :
          (rejected[p] /\ pc'[p] # pc[p]) => email_history' = email_history]_vars

\* C4: once no cycle is running, discount_orders_left has gone down by the
\* number of drafts that had the discount applied.
C4_DecrementedOncePerDiscount ==
    (\A p \in Pollers : pc[p] = "idle")
        => orders0 - clients.discount_orders_left = applied

\* C5: the drafts with the discount applied never outnumber the
\* discount_orders_left the client started with.
C5_NoOverApplication == applied <= orders0

\* C6: the cycle that ran through its batch leaves the stored cursor at the
\* highest history id of its fetched candidates, the skipped and the failed
\* ones included.
MaxHistoryId(msgs) ==
    CHOOSE h \in {msgs[j].history_id : j \in DOMAIN msgs} :
        \A j \in DOMAIN msgs : msgs[j].history_id <= h

C6_CursorAtHighestFetched ==
    [][\A p \in Pollers :
          PersistStep(p) => gmail_state' = MaxHistoryId(new_messages[p])]_vars

\* C7: with non-overlapping cycles the stored cursor never goes down.
C7_CursorMonotonic == [][gmail_state' >= gmail_state]_vars

\* the cursor was stored by the first run and advanced by two later cycles
C7_Witness == gmail_state = BasePos + 2 /\ Quiet /\ reported # {}

\* C8: when two cycles overlap, the cycle that ends later does not replace
\* the stored cursor by a lower one.
C8_NoRewindUnderOverlap ==
    [][\A p \in Pollers :
          (pc[p] \in {"persist", "set_gmail_state"} /\ pc'[p] = "idle")
              => gmail_state' >= gmail_state]_vars

\* C9: a cycle in which a message failed still handles every other message
\* of the batch (each one is recorded, or reported as failed), the failed
\* message has no record and is reported, and the cursor is stored at the
\* position of the last fetched message.
C9_FailureIsolation ==
    [][\A p \in Pollers :
          (PersistStep(p) /\ \E m \in Batch(p) : ~Recorded(m))
              => /\ \A m \in Batch(p) : Recorded(m) \/ m \in reported
                 /\ gmail_state' =
                      new_messages[p][Len(new_messages[p])].history_id]_vars

C12_ExpiredCursor ==
    [][history_error' = Expired =>
          /\ telegram' = {}
          /\ store' = store
          /\ \A p \in Pollers :
                pc'[p] # pc[p] => /\ pc[p] = "get_new_messages"
                                  /\ pc'[p] = "idle"
                                  /\ processed[p] = 0]_vars

\* a cycle was just answered with the expired signal while a message was
\* waiting after the stored cursor
C12_Witness ==
    /\ history_error = Expired
    /\ gmail_state # NoCursor
    /\ mailbox > gmail_state - BasePos
    /\ Quiet

\* C13: with one run at a time, a run that applied the discount for a client
\* with discount_percent = p > 0 and discount_orders_left = n > 0 decrements
\* once: its one commit writes discount_orders_left = n - 1 together with
\* discount_percent = 0 when n = 1 (p is kept when n > 1), and no other step
\* of the run changes the client record.
C13_DecrementAndReset ==
    [][/\ \A p \in Runners :
            /\ (pc[p] = "classify" /\ pc'[p] = "decrement_discount")
                  => clients.discount_percent > 0 /\ clients.discount_orders_left > 0
            /\ (pc[p] = "decrement_discount" /\ pc'[p] # pc[p])
                  => pc'[p] = "commit"
            /\ (pc[p] = "commit" /\ pc'[p] # pc[p])
                  => /\ pc'[p] = "save_inbound"
                     /\ clients'.discount_orders_left
                          = clients.discount_orders_left - 1
                     /\ clients'.discount_percent
                          = IF clients.discount_orders_left = 1
                            THEN 0 ELSE clients.discount_percent
       /\ (\A p \in Runners : pc[p] # "commit") => clients' = clients]_vars

\* the client's last discounted order was used: the counter and the percent
\* are both 0
C13_Witness ==
    /\ orders0 = 1 /\ applied = 1
    /\ clients.discount_orders_left = 0
    /\ clients.discount_percent = 0
    /\ Quiet

\* the outbound rows of a history table
Outbound(h) == {k \in DOMAIN h : h[k].direction = "outbound"}

\* C15: a run that did not apply the discount leaves the client record
\* unchanged: the record changes only in the commit of a run whose result
\* has the discount applied, and a client with discount_orders_left = 0 gets
\* no discount and keeps its discount_percent.
C15_NoDiscountNoChange ==
    [][/\ clients' # clients
            => \E p \in Runners : pc[p] = "commit" /\ result[p].discount
       /\ \A p \in Runners :
            (pc[p] = "classify" /\ pc'[p] # pc[p]
                /\ clients.discount_orders_left = 0)
              => ~result'[p].discount /\ pc'[p] # "decrement_discount"
       /\ (orders0 = 0 /\ clients.discount_percent > 0)
            => clients'.discount_percent = clients.discount_percent]_vars

\* a template draft was written for a client with a discount percent and
\* no discounted order left
C15_Witness ==
    \E p \in Runners :
        /\ pc[p] = "return"
        /\ result[p].template_used /\ ~result[p].discount
        /\ orders0 = 0
        /\ clients = [discount_percent |-> 10, discount_orders_left |-> 0]

\* C17: for a classification with needs_reply = false the result is the
\* "(No reply needed)" one, with client_found, template_used and
\* needs_ai_fallback all false even for a known client with a template; the
\* run then goes straight to the inbound record: no fallback call, no
\* new-client alert, no outbound record, no change of the client record.
C17_NoReplyShortCircuit ==
    [][\A p \in Runners :
          /\ (pc[p] = "classify" /\ pc'[p] # pc[p]
                 /\ ~result'[p].needs_reply /\ result'[p].draft_reply)
                => /\ ~result'[p].client_found
                   /\ ~result'[p].template_used
                   /\ ~result'[p].needs_ai_fallback
                   /\ pc'[p] = "save_inbound"
                   /\ telegram' = {}
                   /\ store' = store
          /\ (pc[p] = "save_inbound" /\ pc'[p] # pc[p]
                 /\ ~result[p].needs_reply)
                => /\ pc'[p] = "return"
                   /\ Outbound(email_history') = Outbound(email_history)
          /\ (pc[p] = "return" /\ ~result[p].needs_reply)
                => Outbound(email_history') = Outbound(email_history)]_vars

\* a run with needs_reply = false has stored its inbound record and returns
C17_Witness ==
    \E p \in Runners :
        /\ pc[p] = "return"
        /\ ~result[p].needs_reply /\ result[p].draft_reply
        /\ msg_id[p] # NoMsg /\ Recorded(msg_id[p])
        /\ Outbound(email_history) = {}

\* C20: normalisation never fails: whatever the payload holds, it yields a
\* classification and the run does not end in an error notification.
C20_NormalizationNeverFails ==
    data # JSONDecodeError =>
        /\ classification.status # "ValidationError"
        /\ telegram = {}

\* a run of the template engine that filled a template
Filled == email_result.status = "done" /\ email_result.template_used

\* the first place of character c in a text
IndexOf(text, c) ==
    CHOOSE k \in DOMAIN text : text[k] = c /\ \A j \in 1..(k - 1) : text[j] # c

\* the fixed stretch that follows the price line in either template
AfterPrice(draft) ==
    CHOOSE k \in DOMAIN draft : draft[k] \in {PrepayTemplate[7], PostpayTemplate[7]}

\* the price line of a draft: what stands between the opening stretch and
\* the stretch after {FINAL_PRICE}
PriceLine(draft) == SubSeq(draft, 2, AfterPrice(draft) - 1)

\* the final price of a draft with the discount shown: what follows "% = "
FinalPriceShown(draft) ==
    SubSeq(draft, IndexOf(draft, "% = ") + 1, AfterPrice(draft) - 1)

\* C14: with a matching template the discount is applied exactly when
\* discount_percent > 0, discount_orders_left > 0 and the parsed price is
\* above zero; the draft then shows "$" and price * (1 - percent/100) to the
\* nearest hundredth, written with two decimals.
C14_DiscountArithmetic ==
    Filled =>
        LET cl == email_result.client_data
            price == Text(classification.price)
            pn == price_num(price)
            shown == FinalPriceShown(email_result.draft_reply)
            f == float(Tail(shown))
        IN /\ email_result.discount
                <=> /\ cl.discount_percent > 0
                    /\ cl.discount_orders_left > 0
                    /\ pn.num > 0
           /\ email_result.discount
                => /\ PriceLine(email_result.draft_reply)
                        = price \o <<" - ">> \o Str(cl.discount_percent)
                                \o <<"% = ">> \o shown
                   /\ Head(shown) = "$"
                   /\ IsFloat(Tail(shown)) /\ f.den = 100
                   /\ 2 * (f.num * pn.den - pn.num * (100 - cl.discount_percent))
                        <= pn.den
                   /\ 2 * (pn.num * (100 - cl.discount_percent) - f.num * pn.den)
                        <= pn.den

\* 5% on $220.00 with one discounted order left: the draft shows $209.00
C14_Witness ==
    /\ Filled /\ email_result.discount
    /\ email_result.client_data.discount_percent = 5
    /\ email_result.client_data.discount_orders_left = 1
    /\ classification.price = JStr(<<"$", "2", "2", "0", ".", "0", "0">>)
    /\ FinalPriceShown(email_result.draft_reply)
         = <<"$", "2", "0", "9", ".", "0", "0">>

\* C16 as stated: a filled draft without discount shows the price text, the
\* discount "0" and the price text again as the final price.
C16_ShowsZeroDiscount ==
    (Filled /\ ~email_result.discount) =>
        PriceLine(email_result.draft_reply)
          = Text(classification.price) \o <<" - ", "0", "% = ">>
              \o Text(classification.price)

\* C16 amended: a filled draft without discount shows the price text alone
\* where "p - 0% = p" stood; only with an empty price text does it show
\* " - 0% = ".
C16_PriceLineCollapsed ==
    (Filled /\ ~email_result.discount) =>
        PriceLine(email_result.draft_reply)
          = IF Text(classification.price) # <<>>
            THEN Text(classification.price)
            ELSE <<" - ", "0", "% = ">>

\* a draft for a client with 10% and no discounted order left, price $220.00
C16_Witness ==
    /\ Filled /\ ~email_result.discount
    /\ email_result.client_data.discount_percent = 10
    /\ email_result.client_data.discount_orders_left = 0
    /\ classification.price = JStr(<<"$", "2", "2", "0", ".", "0", "0">>)

\* C18: for needs_reply = true the result is one of three: unknown client
\* (client_found false, fallback wanted, no template), known client whose
\* (situation, payment_type) is no key of the table (fallback wanted, no
\* template), or a key of the table (template used, no fallback);
\* template_used and needs_ai_fallback are never both true.
C18_OutcomePartition ==
    (email_result.status = "done" /\ email_result.needs_reply) =>
        LET r == email_result
            known == client_data.status = "found"
            key == known /\ <<Word(classification.situation),
                              client_data.payment_type>> \in TemplateKeys
        IN /\ ~known => ~r.client_found /\ r.needs_ai_fallback
                            /\ ~r.template_used
           /\ (known /\ ~key) => r.client_found /\ r.needs_ai_fallback
                                    /\ ~r.template_used
           /\ key => r.client_found /\ r.template_used
                        /\ ~r.needs_ai_fallback
           /\ ~(r.template_used /\ r.needs_ai_fallback)

\* a known client whose payment type has no template for new_order
C18_Witness ==
    /\ email_result.status = "done"
    /\ email_result.client_found /\ email_result.needs_ai_fallback
    /\ ~email_result.template_used
    /\ classification.situation = <<"new_order">>
    /\ client_data.payment_type = "cod"

\* C19: for every key of the template table and every mix of present and
\* absent values the result has template_used = true and a draft in which
\* no placeholder is left; an absent street or city line leaves nothing in
\* its place.
C19_NoPlaceholderLeft ==
    (/\ email_result.status = "done" /\ email_result.needs_reply
     /\ client_data.status = "found"
     /\ <<Word(classification.situation), client_data.payment_type>>
            \in TemplateKeys) =>
        LET draft == email_result.draft_reply IN
        /\ email_result.template_used
        /\ \A k \in DOMAIN draft : draft[k] \notin Placeholders
        /\ (/\ client_data.payment_type = "postpay"
            /\ Text(classification.customer_street) = <<>>
            /\ Text(classification.customer_city_state_zip) = <<>>)
              => SubSeq(draft, Len(draft) - 1, Len(draft)) = <<"\n", "\n">>

\* a postpay draft filled with no price, name, street and city line given
C19_Witness ==
    /\ Filled
    /\ client_data.payment_type = "postpay"
    /\ classification.price = None
    /\ classification.client_name = None
    /\ classification.customer_street = None
    /\ classification.customer_city_state_zip = None

\* C21: when the classifier's text is not well-formed JSON, the message is
\* recovered with the default classification (situation "other", needs_reply
\* true) and nothing is reported to the operator as a failure.
C21_MalformedJsonRecovered ==
    (data = JSONDecodeError /\ classification # Pending) =>
        /\ classification.status = "ok"
        /\ classification.situation = <<"other">>
        /\ classification.needs_reply
        /\ telegram = {}

\* the places in keys whose key holds a non-null value at the top level
TopHits(d, keys) == {n \in DOMAIN keys : Has(d, keys[n])}

\* the places in keys whose key holds a non-null value in a nested map
NestedHits(d, keys) ==
    {n \in DOMAIN keys :
        \E k \in DOMAIN d : /\ d[k].type = "dict"
                             /\ keys[n] \in NestedKeys
                             /\ d[k].items[keys[n]].type \notin {"absent", "null"}}

Least(S) == CHOOSE n \in S : \A m \in S : n <= m

\* the value the resolution order names for a field: the first alias at the
\* top level, else the first alias in a nested map, else the default
Resolved(d, keys, default) ==
    IF TopHits(d, keys) # {} THEN d[keys[Least(TopHits(d, keys))]]
    ELSE IF NestedHits(d, keys) # {}
        THEN LET key == keys[Least(NestedHits(d, keys))]
                 k == CHOOSE k \in DOMAIN d :
                         /\ d[k].type = "dict"
                         /\ d[k].items[key].type \notin {"absent", "null"}
             IN Json(d[k].items[key].type, d[k].items[key].v, NoItems)
    ELSE default

\* C22: every field of the classification is the first non-null value among
\* its aliases at the top level, else the first non-null alias value of a
\* nested map, else the default; an explicit needs_reply = false is kept.
C22_FieldResolution ==
    (data # Pending /\ data # JSONDecodeError /\ classification # Pending) =>
        /\ classification.status = "ok"
        /\ classification.needs_reply =
               (Resolved(data, FieldKeys.needs_reply, JTrue) = JTrue)
        /\ JStr(classification.situation) =
               Resolved(data, FieldKeys.situation, JStr(<<"other">>))
        /\ JStr(classification.client_email) =
               Resolved(data, FieldKeys.client_email, JStr(<<>>))
        /\ \A f \in OptionalFields :
               classification[f] = Resolved(data, FieldKeys[f], None)

\* C27: a failure of the notification sink never raises and changes nothing
\* of a poll cycle: the message of a failed result notification is counted,
\* the first cycle's cursor is stored, the cycle goes on where it would, and
\* the history and client records stay as they are.
C27_SinkFailureHarmless ==
    [][(telegram' # {} /\ sent' # "True") =>
          /\ sent' = "False"
          /\ email_history' = email_history
          /\ clients' = clients
          /\ \A p \in Pollers :
                /\ (pc[p] = "return" /\ pc'[p] # pc[p])
                      => /\ processed'[p] = processed[p] + 1
                         /\ latest_history_id'[p] = msg_info(p).history_id
                         /\ pc'[p] \in {"email_already_processed", "persist"}
                /\ (pc[p] = "set_gmail_state" /\ pc'[p] # pc[p])
                      => gmail_state' = latest_history_id[p]
                /\ (pc[p] = "classify" /\ i'[p] # i[p])
                      => /\ processed'[p] = processed[p]
                         /\ pc'[p] \in {"email_already_processed", "persist"}]_vars

\* the result notification of a cycle's message was not delivered and the
\* message is counted
C27_Witness ==
    /\ sent = "False"
    /\ \E n \in telegram : n.kind = "result"
    /\ \E p \in Pollers : processed[p] = 1

\* C28: poll_gmail never raises, whichever call fails: every cycle under way
\* has a next step, no cycle ends with an error passed to its caller, and
\* once the timer's cycle has returned its next cycle can start.
C28_NeverRaises ==
    \A p \in Pollers :
        /\ pc[p] # "raised"
        /\ pc[p] # "idle" => ENABLED (Cycle(p) \/ Pipeline(p))
        /\ (Quiet /\ p = "timer") => ENABLED poll_gmail(p)

\* the fetch of a cycle has just failed with an error that is not the
\* expired signal: the cycle returned and the operator was told
C28_Witness ==
    /\ Quiet
    /\ history_error = "500"
    /\ telegram = {[kind |-> "poll_error", msg_id |-> NoMsg]}

\* the running pipeline of p has stored the inbound record of its message
NewlyRecorded(p) ==
    /\ pc[p] = "return"
    /\ msg_id[p] # NoMsg
    /\ Recorded(msg_id[p])
    /\ ~rejected[p]

\* C29: the count of a poll cycle goes up by one for a message the cycle
\* has newly recorded in the history store, and stays for a message that is
\* skipped as already processed or whose processing failed.
C29_CountIsNewlyRecorded ==
    [][\A p \in Pollers :
          (i[p] >= 1 /\ i'[p] = i[p] + 1)
              => processed'[p] =
                     processed[p] + (IF NewlyRecorded(p) THEN 1 ELSE 0)]_vars

\* the local history has been read and not yet supplemented
LocalRead == stored # Pending /\ history # Pending /\ history.status = "local"

\* the stored rows of the client that are not among the 3 most recent
Older == {stored.rows[k] : k \in 1..(Len(stored.rows) - 3)}

\* the 3 most recent stored rows (all of them when there are fewer)
MostRecent == Range(stored.rows) \ Older

\* a sequence of keys is in ascending order
Ascending(keys) == \A j, k \in DOMAIN keys : j < k => keys[j] <= keys[k]

\* C23: whatever the situations of a client's stored records, the history
\* returned holds the 3 most recent of them (all of them when there are
\* fewer than 3).
C23_RecentAlwaysReturned ==
    LocalRead => MostRecent \subseteq Range(history.rows)

\* a history of 11 rows, the 3 most recent about tracking and the 8 older
\* ones new orders, has been read: one older row had to stay out
C23_Witness ==
    /\ LocalRead
    /\ Len(stored.rows) = 11
    /\ \A r \in MostRecent : r.situation = "tracking"
    /\ \A r \in Older : r.situation = "new_order"
    /\ Len(history.rows) = 10

C25_LowPriorityLeftOut ==
    (LocalRead /\ stored.rows = ExampleHistory) =>
        history.rows = SubSeq(ExampleHistory, 4, 8)

\* the mailbox records of the search whose (subject, direction) pair no
\* local record has
Unmatched(local, gh) ==
    {g \in Range(gh) :
        \A l \in Range(local) : <<l.subject, l.direction>> # <<g.subject, g.direction>>}

\* the instant of a record: its wall-clock reading brought to UTC, a naive
\* reading being one of UTC
Instant(h) ==
    h.created_at.wall - (IF h.created_at.aware THEN h.created_at.offset ELSE 0)

\* C26: the mailbox is searched only when the local history has fewer than
\* 3 records; the merged history is then made of the local records and the
\* mailbox records whose (subject, direction) pair no local record has, in
\* ascending order of their instants, cut to the 10 most recent.
C26_SparseHistoryMerge ==
    [][gmail_history' # gmail_history =>
         LET local == history.rows
             merged == history'.rows
             all == Range(local) \cup Unmatched(local, gmail_history'.rows)
         IN /\ Len(local) < 3
            /\ Range(merged) \subseteq all
            /\ Cardinality(Range(merged)) = Len(merged)
            /\ Len(merged) = Min(Cardinality(all), 10)
            /\ \A out \in all \ Range(merged) : \A in \in Range(merged) :
                  Instant(out) <= Instant(in)
            /\ gmail_history'.rows # <<>>
                  => Ascending([k \in DOMAIN merged |->
                                   Instant(merged[k])])]_vars

\* two local records and ten mailbox records were merged: the mailbox
\* records that repeat a local pair are not in the result, a record with a
\* UTC+3 date comes before a naive one with an earlier reading, and the
\* oldest record was cut
C26_Witness ==
    /\ history # Pending /\ history.status = "merged"
    /\ Len(gmail_history.rows) = 10
    /\ Len(history.rows) = 10
    /\ \E g \in Range(gmail_history.rows) :
         g.direction = "inbound" /\ g \notin Range(history.rows)
    /\ \E j, k \in DOMAIN history.rows :
         /\ j < k
         /\ history.rows[j].created_at.wall > history.rows[k].created_at.wall
    /\ stored.rows[1] \notin Range(history.rows)

\* the directory holds a row for the address, in whatever letter case and
\* with whatever blanks the caller writes it
Known(email) == \E c \in directory : c.email.name = email.name

\* C30: a directory write that is rejected leaves the directory unchanged:
\* add with an address that is there already (in any letter case), with an
\* invalid payment_type or with a discount_percent outside 0..100 answers
\* with an error and adds nothing; update with an invalid payment_type
\* answers with an error and changes nothing; update and delete of an
\* unknown address answer not-found and change nothing.
C30_RejectedWriteChangesNothing ==
    [][written' # written =>
         LET r == written'
             invalid_type == r.payment_type \notin {"prepay", "postpay"}
         IN /\ (r.op = "add" /\ (\/ Known(r.email) \/ invalid_type
                                 \/ r.discount_percent \notin 0..100))
                  => r.status = "ValueError" /\ directory' = directory
            /\ (r.op = "update" /\ "payment_type" \in r.given /\ invalid_type)
                  => r.status = "ValueError" /\ directory' = directory
            /\ (r.op = "update" /\ ~Known(r.email)
                    /\ ~("payment_type" \in r.given /\ invalid_type))
                  => r.status = "None" /\ directory' = directory
            /\ (r.op = "delete" /\ ~Known(r.email))
                  => r.status = "False" /\ directory' = directory
            /\ r.status # "ok" => directory' = directory]_vars

\* an add of a valid row was rejected because the address, written in
\* upper case, is in the directory already
C30_Witness ==
    /\ written # Pending
    /\ written.op = "add" /\ written.status = "ValueError"
    /\ written.email.upper
    /\ written.payment_type = "prepay" /\ written.discount_percent = 100
    /\ Known(written.email)
    /\ Cardinality(directory) = 2

\* C32: the history store is append-only under the pipeline: whatever step a
\* poll cycle or a direct run takes, the records stored before it are all
\* still there afterwards, unchanged and in the same places, and the step
\* has at most added records after them.
C32_AppendOnly ==
    [][/\ Len(email_history') >= Len(email_history)
       /\ SubSeq(email_history', 1, Len(email_history)) = email_history]_vars

\* a direct run was given the id of a message a poll cycle had recorded with
\* its draft: the insert was turned down and the rows stayed as they were
C32_Witness ==
    /\ pc[Direct] = "return" /\ rejected[Direct]
    /\ Len(email_history) >= 2
    /\ email_history[1] = EmailRecord("inbound", msg_id[Direct])

C34_FailedNotRetried ==
    \A m \in reported \ {NoMsg} :
        (Position(m) <= gmail_state /\ ~Recorded(m))
            => \A p \in Pollers :
                 /\ msg_id[p] # m
                 /\ \A k \in DOMAIN new_messages[p] :
                       new_messages[p][k].msg_id # m

\* message 1 failed in a cycle that stored the cursor behind it; the next
\* cycle fetched message 2 alone and is at work on it
C34_Witness ==
    /\ 1 \in reported /\ ~Recorded(1)
    /\ gmail_state = Position(1)
    /\ pc["timer"] = "classify" /\ msg_id["timer"] = 2
    /\ Len(new_messages["timer"]) = 1
    /\ triggers = 0

\* C38: whatever two overlapping poll cycles do, no step takes the client's
\* stored discount_orders_left below zero, and no step raises it: a
\* decrement that commits late never puts back a counter higher than the
\* one already stored.
C38_CounterNeverRaised ==
    [][/\ clients'.discount_orders_left >= 0
       /\ clients'.discount_orders_left <= clients.discount_orders_left]_vars

\* C36: a run that completes adds exactly one inbound record, with the
\* message id it was given, and then exactly one outbound record if and
\* only if needs_reply is true and the draft is non-empty. The inbound
\* record is added once classification and any fallback generation have
\* succeeded, and records are added by these two steps alone, so before the
\* result is delivered.
C36_RecordsPerRun ==
    [][/\ \A p \in Runners :
            /\ (pc[p] = "save_inbound" /\ pc'[p] # pc[p])
                  => /\ email_history' =
                          Append(email_history, EmailRecord("inbound", msg_id[p]))
                     /\ pc'[p] = IF result[p].needs_reply /\ result[p].draft_reply
                                 THEN "save_outbound" ELSE "return"
            /\ (pc[p] = "save_outbound" /\ pc'[p] # pc[p])
                  => /\ email_history' =
                          Append(email_history, EmailRecord("outbound", NoMsg))
                     /\ pc'[p] = "return"
            /\ (pc'[p] = "save_inbound" /\ pc[p] # pc'[p])
                  => /\ pc[p] \in {"classify", "decrement_discount", "commit",
                                    "fallback"}
                     /\ result'[p] # NoResult
                     /\ ~result'[p].needs_ai_fallback
       /\ email_history' # email_history
            => \E p \in Runners : /\ pc[p] \in {"save_inbound", "save_outbound"}
                                  /\ pc'[p] # pc[p]]_vars

\* C37: once the classification is processed, the run goes to the fallback
\* agent if and only if needs_reply is true and no template was used, and
\* nothing else leads there; from the fallback on, through both inserts and
\* up to the delivery of a completed run's result, needs_ai_fallback is
\* false, so format_result never writes the "[AI will generate reply]"
\* marker.
C37_FallbackCalledAndCleared ==
    [][\A p \in Runners :
         /\ (pc[p] = "classify"
               /\ pc'[p] \in {"decrement_discount", "fallback", "save_inbound"})
              => ((pc'[p] = "fallback")
                    <=> (result'[p].needs_reply /\ ~result'[p].template_used))
         /\ (pc'[p] = "fallback" /\ pc[p] # "fallback") => pc[p] = "classify"
         /\ pc'[p] \in {"save_inbound", "save_outbound"}
              => ~result'[p].needs_ai_fallback
         /\ (pc'[p] = "return" /\ result'[p] # NoResult)
              => ~result'[p].needs_ai_fallback]_vars

\* a poll cycle's run for a sender the directory does not know has come
\* back from the fallback agent with a draft
C37_Witness ==
    /\ pc["timer"] = "return"
    /\ result["timer"].needs_reply /\ ~result["timer"].client_found
    /\ ~result["timer"].template_used /\ result["timer"].draft_reply
    /\ ~result["timer"].needs_ai_fallback

\* the price of the classification, with "$" and "," taken out, is no number
\* to float(): an absent or empty price, or a text such as "free"
Unparsable(c) ==
    ~IsFloat(SelectSeq(Text(c.price), LAMBDA ch : ch \notin {"$", ","}))

\* C33: when the price text does not parse as a number,
\* process_classified_email still gives its result (template draft, fallback
\* request or no reply, as the client and the situation decide), the price
\* counts as zero, no discount is applied and the client record is left as
\* it was.
C33_UnparsablePriceIsZero ==
    [][(email_result = Pending /\ email_result' # Pending
          /\ Unparsable(classification))
         => /\ price_num(Text(classification.price)).num = 0
            /\ ~email_result'.discount
            /\ client_data' = client_data
            /\ email_result'.template_used
                  <=> /\ classification.needs_reply
                      /\ client_data.status = "found"
                      /\ REPLY_TEMPLATES(Word(classification.situation),
                                         client_data.payment_type)]_vars

\* the price "free" for a prepay client with 10% and two discounted orders
\* left: the template draft is written without discount, the row is as it was
C33_Witness ==
    /\ email_result # Pending /\ email_result.template_used
    /\ ~email_result.discount
    /\ Text(classification.price) = <<"f", "r", "e", "e">>
    /\ client_data.status = "found"
    /\ client_data.discount_percent = 10
    /\ client_data.discount_orders_left = 2

\* C31: after any sequence of directory writes every stored client has
\* payment_type prepay or postpay and discount_percent within 0..100, and
\* the last add or update, if it carried a discount_percent outside 0..100,
\* was rejected.
C31_DirectoryRowsValid ==
    /\ \A c \in directory :
          /\ c.payment_type \in {"prepay", "postpay"}
          /\ c.discount_percent \in 0..100
    /\ (/\ written # Pending
        /\ written.op \in {"add", "update"}
        /\ "discount_percent" \in written.given
        /\ written.discount_percent \notin 0..100)
          => written.status \notin {"ok"}

\* the messagesAdded entries of the pages, in the order the feed gave them
RECURSIVE Appearances(_)
Appearances(pages) ==
    IF pages = <<>> THEN <<>>
    ELSE Appearances(SubSeq(pages, 1, Len(pages) - 1)) \o pages[Len(pages)].history

\* the places where message id appears as a message of the primary inbox
PrimaryPlaces(id) ==
    {k \in DOMAIN Appearances(feed) :
        /\ Appearances(feed)[k].id = id
        /\ "INBOX" \in Appearances(feed)[k].labelIds
        /\ Appearances(feed)[k].labelIds \subseteq {"INBOX"}}

FirstPlace(id) == CHOOSE k \in PrimaryPlaces(id) : \A j \in PrimaryPlaces(id) : k <= j

\* C35: when history.list answers every page, up to the one without a next
\* page, get_new_messages returns each message id at most once, whatever
\* the number of entries and pages that show it; the ids returned are those
\* that some page shows as a message of the primary inbox, all of them; and
\* they stand in the order of their first such appearance in the feed.
C35_PagedOnceInOrder ==
    (fetched # Pending /\ \A k \in DOMAIN feed : feed[k].status = "ok")
      => LET ms == fetched.messages IN
         /\ fetched.status = "ok"
         /\ \A k, l \in DOMAIN ms : ms[k].msg_id = ms[l].msg_id => k = l
         /\ {ms[k].msg_id : k \in DOMAIN ms}
              = {id \in {1, 2} : PrimaryPlaces(id) # {}}
         /\ \A k, l \in DOMAIN ms :
              k < l => FirstPlace(ms[k].msg_id) < FirstPlace(ms[l].msg_id)

\* two pages: the first shows message 2 under a category label and then
\* message 1, the second shows message 2 and message 1 in the primary
\* inbox; the call returned message 1, then message 2
C35_Witness ==
    /\ fetched # Pending /\ fetched.status = "ok"
    /\ Len(feed) = 2 /\ feed[2].status = "ok"
    /\ feed[1].history = <<Added(2, {"INBOX", "CATEGORY_PROMOTIONS"}),
                            Added(1, {"INBOX"})>>
    /\ feed[2].history = <<Added(2, {"INBOX"}), Added(1, {"INBOX"})>>
    /\ Len(fetched.messages) = 2
    /\ fetched.messages[1]["msg_id"] = 1 /\ fetched.messages[2]["msg_id"] = 2

\* message m is in the mailbox, above a cursor that is initialized
Waiting(m) ==
    /\ gmail_state # NoCursor
    /\ m <= mailbox
    /\ Position(m) > gmail_state

\* m has a record in the history store, or an error notification named it
Settled(m) == Recorded(m) \/ m \in reported

StoreAnswers ==
    /\ SF_vars(Quiet /\ poll_gmail("timer"))
    /\ \A k \in 1..MaxMsgs :
          SF_vars(/\ i["timer"] = k
                  /\ skip_processed("timer") \/ not_processed("timer"))

====
